---- MODULE Spec2Model ----
(***************************************************************************)
(* Model of ASLDetectorApp (src/asl_webcam.py): the hold-time debounce of  *)
(* detected letters, the word buffer with its edit commands, the word      *)
(* history with its log file, and the detection session (capture handle,   *)
(* running flag, self-rescheduled frame callback).                         *)
(*                                                                         *)
(* Time is counted in clock units; UnitsPerSecond units make one second.   *)
(* The variable now is the latest value time.time() has returned (or a     *)
(* lower bound of the clock before the first reading): every reading is    *)
(* drawn at or after it.                                                   *)
(***************************************************************************)
EXTENDS Integers, Sequences, FiniteSets, TLC

\* ---------------------------------------------------------------- bounds
UnitsPerSecond == 1
MaxTime == 3
MaxWord == 2
MaxHist == 2
MaxLog == 3
MaxBoxes == 2
MaxPending == 2

\* ------------------------------------------------------- program constants
\* self.HOLD_TIME = 1.0 (seconds), in clock units
HOLD_TIME == 1 * UnitsPerSecond
\* model.names: the letters the detector can report
Letters == {"A", "B"}
\* Python None for last_detected_letter
NoLetter == "None"
\* Python None for letter_hold_start; 0.0 is falsy as well, and the clock
\* never returns it (it starts at a positive value)
NoTime == 0

VARIABLES
    current_word,          \* the word being spelled: sequence of characters
    last_detected_letter,  \* last letter handed to handle_letter_detection
    letter_hold_start,     \* when that letter was first seen, or NoTime
    word_history,          \* submitted words, most recent last
    spelled_words,         \* lines of words/spelled_words.txt
    cap,                   \* "None", "open" or "closed" (VideoCapture not opened)
    is_running,            \* detection flag
    selected,              \* the webcam combobox has a selection
    pending,               \* update_frame callbacks scheduled with root.after
    now,                   \* latest clock value
    \* observers (history variables): they record what the operations did
    \* and never influence them
    lastOp,                \* the operation performed last and its outcome
    ep,                    \* the current presentation of a symbol
    differRun,             \* samples so far, each differing from the one before
    firstDet               \* first detection after the latest clear_word

prog == <<current_word, last_detected_letter, letter_hold_start,
          word_history, spelled_words, cap, is_running, selected, pending, now>>
obs == <<lastOp, ep, differRun, firstDet>>
vars == <<prog, obs>>

\* ---------------------------------------------------------------- helpers
Min(a, b) == IF a <= b THEN a ELSE b

\* sequences over S of length 0..n
RECURSIVE SeqsUpTo(_, _)
SeqsUpTo(S, n) ==
    IF n = 0 THEN {<<>>}
    ELSE LET shorter == SeqsUpTo(S, n - 1)
         IN shorter \cup {Append(s, x) : s \in {q \in shorter : Len(q) = n - 1}, x \in S}

\* results.boxes of self.model(frame, conf=self.CONF_TH)[0]: the letters of
\* the detections at or above the confidence threshold, in the order the
\* detector lists them (the score of a box is not used after the filter)
Frames == SeqsUpTo(Letters, MaxBoxes)

\* datetime.now().strftime("%Y-%m-%d %H:%M:%S"): the clock cut to whole seconds
Timestamp(t) == t \div UnitsPerSecond

\* the log line written after the buffer was cleared
LogLineCleared(t, word) == [ts |-> Timestamp(t), text |-> <<>>]

\* f"{timestamp}: {self.current_word}\n"
LogLine(t, word) == [ts |-> Timestamp(t), text |-> word]

\* the debounce state and the buffer, as handle_letter_detection sees them
Engine == [letter |-> last_detected_letter, start |-> letter_hold_start,
           word |-> current_word]

\* handle_letter_detection with the hold test written > instead of >=
HandleLetterDetectionStrict(e, letter, t) ==
    IF letter # e.letter
    THEN [e EXCEPT !.letter = letter, !.start = t]
    ELSE IF e.start # NoTime /\ (t - e.start) > HOLD_TIME
         THEN [e EXCEPT !.word = Append(e.word, letter), !.start = NoTime]
         ELSE e

\* handle_letter_detection without the reset of the hold timer after an add
HandleLetterDetectionNoReset(e, letter, t) ==
    IF letter # e.letter
    THEN [e EXCEPT !.letter = letter, !.start = t]
    ELSE IF e.start # NoTime /\ (t - e.start) >= HOLD_TIME
         THEN [e EXCEPT !.word = Append(e.word, letter)]
         ELSE e

\* handle_letter_detection that restarts the hold timer after an add
HandleLetterDetectionRestart(e, letter, t) ==
    IF letter # e.letter
    THEN [e EXCEPT !.letter = letter, !.start = t]
    ELSE IF e.start # NoTime /\ (t - e.start) >= HOLD_TIME
         THEN [e EXCEPT !.word = Append(e.word, letter), !.start = t]
         ELSE e

\* handle_letter_detection that restarts the hold timer for a new letter
\* only when no timer is running
HandleLetterDetectionKeepTimer(e, letter, t) ==
    IF letter # e.letter /\ e.start = NoTime
    THEN [e EXCEPT !.letter = letter, !.start = t]
    ELSE IF e.start # NoTime /\ (t - e.start) >= HOLD_TIME
         THEN [e EXCEPT !.word = Append(e.word, letter), !.start = NoTime]
         ELSE e

\* the body of handle_letter_detection with the hold test written > for >=
HoldStepStrict(hold, e, letter, t) ==
    IF letter # e.letter
    THEN [e EXCEPT !.letter = letter, !.start = t]
    ELSE IF e.start # NoTime /\ (t - e.start) > hold
         THEN [e EXCEPT !.word = Append(e.word, letter), !.start = NoTime]
         ELSE e

\* the body of handle_letter_detection, for time.time() = t and
\* self.HOLD_TIME = hold
HoldStep(hold, e, letter, t) ==
    IF letter # e.letter
    THEN [e EXCEPT !.letter = letter, !.start = t]
    ELSE IF e.start # NoTime /\ (t - e.start) >= hold
         THEN [e EXCEPT !.word = Append(e.word, letter), !.start = NoTime]
         ELSE e

\* handle_letter_detection(letter, score) with time.time() = t
HandleLetterDetection(e, letter, t) == HoldStep(HOLD_TIME, e, letter, t)

\* the clock readings of the calls made for the n boxes of one frame: the
\* first call reads t0, and the clock may move on by one unit after call k
\* (k = n: it does not)
Readings(n, t0, k) == [i \in 1..n |-> IF i <= k THEN t0 ELSE t0 + 1]

\* the first reading of a frame with n boxes: any value from the latest one
\* on; a frame without boxes reads no clock
FirstReadings(n) == IF n = 0 THEN {now} ELSE now..MaxTime

\* where the clock may move during the loop over n boxes that starts at t0.
\* The loop over one frame's boxes is taken to last less than HOLD_TIME, so
\* the clock moves only where a clock unit is shorter than that.
ClockSteps(n, t0) ==
    {n} \cup (IF 1 < HOLD_TIME /\ t0 < MaxTime THEN 1..(n - 1) ELSE {})

\* the for loop of update_frame over results.boxes
RECURSIVE ProcessBoxes(_, _, _, _)
ProcessBoxes(e, boxes, times, i) ==
    IF i > Len(boxes) THEN e
    ELSE ProcessBoxes(HandleLetterDetection(e, boxes[i], times[i]),
                      boxes, times, i + 1)

\* ------------------------------------------------------------- observers
\* the record kept of an operation: its name, its outcome, the number of
\* characters detection appended during it, and the buffer it started from
\* (kept for the operations that append to the buffer)
Op(name, result, added, before) ==
    [op |-> name, result |-> result, added |-> added, before |-> before]

\* no symbol is being presented; gap tells that a frame without detections
\* ended the previous presentation, and last is the symbol of that
\* presentation if it was confirmed then or before
NoEpisode(gap, last) ==
    [sym |-> NoLetter, start |-> 0, seen |-> 0, adds |-> 0, fresh |-> FALSE,
     gap |-> gap, again |-> FALSE, undone |-> FALSE, last |-> last]

\* the operations of the capture session that neither read nor write the
\* buffer and the debounce state (stop_detection, on_webcam_change, a start
\* or a callback that processes no frame) are recorded alike
SessionOp == Op("session", "done", 0, <<>>)

\* differRun when a sample repeated the symbol of the sample before it, or a
\* frame had no detection; otherwise differRun counts the samples, up to 2
Broken == 0 - 1

\* firstDet when no clear_word is being followed: none was called yet, or
\* HOLD_TIME has passed since the first detection after it
NoWindow == 0 - 1

Observers == [ep |-> ep, differRun |-> differRun, firstDet |-> firstDet]

\* what one call handle_letter_detection(letter, score) at time t, made in
\* debounce state e, shows.  A presentation (hold episode) of a symbol is a
\* maximal run of consecutive samples carrying it; it starts at `start`, was
\* last sampled at `seen`, and has produced `adds` confirmed-symbol events.
\*   fresh: the symbol differed from the stored letter when it appeared
\*   gap:   a frame without detections came right before it
\*   again: the symbol was confirmed before the frame without detections
\*          that came right before it
ObserveBox(g, e, letter, t) ==
    LET added == Len(HandleLetterDetection(e, letter, t).word) - Len(e.word)
    IN [ep |-> IF letter = g.ep.sym
               THEN [g.ep EXCEPT !.seen = t, !.adds = Min(@ + added, 2)]
               ELSE [sym |-> letter, start |-> t, seen |-> t, adds |-> added,
                     fresh |-> e.letter # letter,
                     gap |-> g.ep.sym = NoLetter /\ g.ep.gap,
                     again |-> g.ep.sym = NoLetter /\ g.ep.last = letter,
                     undone |-> FALSE, last |-> NoLetter],
        differRun |-> IF g.differRun # Broken /\ letter # g.ep.sym
                      THEN Min(g.differRun + 1, 2)
                      ELSE Broken,
        firstDet |-> IF g.firstDet = 0 THEN t ELSE g.firstDet]

RECURSIVE ObserveBoxes(_, _, _, _, _)
ObserveBoxes(g, e, boxes, times, i) ==
    IF i > Len(boxes) THEN g
    ELSE ObserveBoxes(ObserveBox(g, e, boxes[i], times[i]),
                      HandleLetterDetection(e, boxes[i], times[i]),
                      boxes, times, i + 1)

\* a frame without detections ends the presentation; firstDet is followed
\* until HOLD_TIME has passed since it
ObserveFrame(g, e, boxes, times) ==
    IF boxes = <<>>
    THEN [g EXCEPT !.ep = NoEpisode(TRUE,
                                    IF g.ep.sym = NoLetter THEN g.ep.last
                                    ELSE IF g.ep.adds > 0 \/ g.ep.again
                                         THEN g.ep.sym
                                         ELSE NoLetter),
                   !.differRun = Broken]
    ELSE LET h == ObserveBoxes(g, e, boxes, times, 1)
         IN IF h.firstDet > 0 /\ times[Len(boxes)] - h.firstDet >= HOLD_TIME
            THEN [h EXCEPT !.firstDet = NoWindow]
            ELSE h

SetObservers(g) ==
    /\ ep' = g.ep
    /\ differRun' = g.differRun
    /\ firstDet' = g.firstDet

\* ------------------------------------------------------------------- Init
Init ==
    /\ current_word = <<>>
    /\ last_detected_letter = NoLetter
    /\ letter_hold_start = NoTime
    /\ word_history = <<>>
    /\ spelled_words \in {<<>>, <<LogLine(0, <<"A">>)>>}
    /\ cap = "None"
    /\ is_running = FALSE
    /\ selected = FALSE
    /\ pending = 0
    /\ now = 1
    /\ lastOp = Op("init", "done", 0, <<>>)
    /\ ep = NoEpisode(FALSE, NoLetter)
    /\ differRun = 0
    /\ firstDet = NoWindow

\* ---------------------------------------------------------------- actions
\* stop_detection that releases the capture and leaves is_running set
StopEffectKeepRunning ==
    /\ is_running' = is_running
    /\ cap' = "None"

\* stop_detection
StopEffect ==
    /\ is_running' = FALSE
    /\ cap' = "None"

\* the part of update_frame after the is_running test, for a session whose
\* capture handle is c and whose callback queue holds p entries
FrameStep(c, p) ==
    \/ \* cap.read() fails (always on a capture that is not opened):
       \* stop_detection
       /\ StopEffect
       /\ pending' = p
       /\ lastOp' = SessionOp
       /\ UNCHANGED <<current_word, last_detected_letter, letter_hold_start,
                      now, ep, differRun, firstDet>>
    \/ \* a frame is read and the detector returns boxes
       /\ c = "open"
       /\ \E boxes \in Frames :
          \E t0 \in FirstReadings(Len(boxes)) :
          \E k \in ClockSteps(Len(boxes), t0) :
          \E times \in {Readings(Len(boxes), t0, k)} :
          \E e \in {ProcessBoxes(Engine, boxes, times, 1)} :
          \E g \in {ObserveFrame(Observers, Engine, boxes, times)} :
          \E added \in {Len(e.word) - Len(current_word)} :
             /\ Len(e.word) <= MaxWord
             /\ current_word' = e.word
             /\ last_detected_letter' = e.letter
             /\ letter_hold_start' = e.start
             /\ now' = IF boxes = <<>> THEN now ELSE times[Len(boxes)]
             /\ pending' = p + 1
             /\ is_running' = TRUE
             /\ cap' = c
             /\ lastOp' = Op("update_frame", "frame", added,
                             IF added = 0 THEN <<>> ELSE current_word)
             /\ SetObservers(g)

\* toggle_detection while running: stop_detection
StopDetection ==
    /\ is_running
    /\ StopEffect
    /\ lastOp' = SessionOp
    /\ UNCHANGED <<current_word, last_detected_letter,
                   letter_hold_start, word_history, spelled_words, selected,
                   pending, now, ep, differRun, firstDet>>

\* toggle_detection while stopped: start_detection, which ends in a direct
\* call of update_frame
StartDetection ==
    /\ ~is_running
    /\ pending < MaxPending
    /\ UNCHANGED <<word_history, spelled_words, selected>>
    /\ IF cap = "None"
       THEN IF ~selected
            THEN /\ lastOp' = SessionOp
                 /\ UNCHANGED <<current_word, last_detected_letter,
                                letter_hold_start, cap, is_running, pending,
                                now, ep, differRun, firstDet>>
            ELSE \E opened \in BOOLEAN :
                    IF ~opened
                    THEN /\ cap' = "closed"
                         /\ lastOp' = SessionOp
                         /\ UNCHANGED <<current_word, last_detected_letter,
                                        letter_hold_start, is_running, pending,
                                        now, ep, differRun, firstDet>>
                    ELSE FrameStep("open", pending)
       ELSE FrameStep(cap, pending)

\* on_webcam_change(webcam_index), the combobox selection event
OnWebcamChange ==
    /\ \E opened \in BOOLEAN :
          /\ cap' = IF opened THEN "open" ELSE "closed"
          /\ lastOp' = SessionOp
    /\ is_running' = FALSE
    /\ selected' = TRUE
    /\ UNCHANGED <<current_word, last_detected_letter,
                   letter_hold_start, word_history, spelled_words, pending, now,
                   ep, differRun, firstDet>>

\* a scheduled update_frame callback fires
UpdateFrame ==
    /\ pending > 0
    /\ UNCHANGED <<word_history, spelled_words, selected>>
    /\ IF ~is_running
       THEN /\ pending' = pending - 1
            /\ lastOp' = SessionOp
            /\ UNCHANGED <<current_word, last_detected_letter,
                           letter_hold_start, cap, is_running, now, ep, differRun, firstDet>>
       ELSE FrameStep(cap, pending - 1)

\* One call handle_letter_detection(letter, score) of an application whose
\* HOLD_TIME is 0: a tick with one detection, at any clock value from the
\* latest one on.
ZeroHoldTick ==
    \E letter \in Letters, t \in now..MaxTime :
    \E e \in {HoldStep(0, Engine, letter, t)} :
    \E added \in {Len(e.word) - Len(current_word)} :
       /\ Len(e.word) <= MaxWord
       /\ current_word' = e.word
       /\ last_detected_letter' = e.letter
       /\ letter_hold_start' = e.start
       /\ now' = t
       /\ lastOp' = Op("update_frame", "frame", added,
                       IF added = 0 THEN <<>> ELSE current_word)
       /\ UNCHANGED <<word_history, spelled_words, cap, is_running, selected,
                      pending, ep, differRun, firstDet>>

\* clear_word that empties the buffer only
ClearEffectWordOnly ==
    /\ current_word' = <<>>
    /\ UNCHANGED <<last_detected_letter, letter_hold_start>>

\* the assignments of clear_word
ClearEffect ==
    /\ current_word' = <<>>
    /\ last_detected_letter' = NoLetter
    /\ letter_hold_start' = NoTime

\* clear_word gives the detection a new start: the presentation ends
ObserveClear ==
    /\ ep' = NoEpisode(FALSE, NoLetter)
    /\ differRun' = 0
    /\ firstDet' = 0

\* clear_word
ClearWord ==
    /\ ClearEffect
    /\ lastOp' = Op("clear_word", "done", 0, <<>>)
    /\ ObserveClear
    /\ UNCHANGED <<word_history, spelled_words, cap, is_running,
                   selected, pending, now>>

\* a test of the buffer that lets the empty buffer through
TruthyAlways(word) == TRUE

\* `if self.current_word:` -- a str is true unless it is empty
Truthy(word) == word # <<>>

\* self.current_word[1:], a slip for [:-1]
DropFirst(word) == SubSeq(word, 2, Len(word))

\* self.current_word[:-1]
DropLast(word) == SubSeq(word, 1, Len(word) - 1)

\* backspace_word
BackspaceWord ==
    /\ current_word' = IF Truthy(current_word)
                       THEN DropLast(current_word)
                       ELSE current_word
    /\ lastOp' = IF Truthy(current_word)
                 THEN Op("backspace_word", "removed", 0, <<>>)
                 ELSE Op("backspace_word", "empty", 0, <<>>)
    /\ ep' = IF /\ current_word # <<>>
                /\ lastOp.result = "frame" /\ lastOp.added > 0
                /\ ep.sym = current_word[Len(current_word)]
             THEN [ep EXCEPT !.undone = TRUE]
             ELSE ep
    /\ UNCHANGED <<last_detected_letter, letter_hold_start,
                   word_history, spelled_words, cap, is_running, selected,
                   pending, now, differRun, firstDet>>

\* add_space
AddSpace ==
    /\ Len(current_word) < MaxWord
    /\ current_word' = Append(current_word, " ")
    /\ lastOp' = Op("add_space", "done", 0, current_word)
    /\ UNCHANGED <<last_detected_letter, letter_hold_start,
                   word_history, spelled_words, cap, is_running, selected,
                   pending, now, ep, differRun, firstDet>>

\* an append that skips a word equal to the latest entry
RecordWordOnce(history, word) ==
    IF history # <<>> /\ history[Len(history)] = word
    THEN history
    ELSE Append(history, word)

\* self.word_history.append(self.current_word)
RecordWord(history, word) == Append(history, word)

\* submit_word; the append to the log file either succeeds or raises
SubmitWord ==
    /\ Len(word_history) < MaxHist
    /\ Len(spelled_words) < MaxLog
    /\ UNCHANGED <<cap, is_running, selected, pending>>
    /\ IF Truthy(current_word)
       THEN \E written \in BOOLEAN, t \in now..Min(now + 1, MaxTime) :
               /\ word_history' = RecordWord(word_history, current_word)
               /\ now' = t
               /\ IF written
                  THEN /\ spelled_words' = Append(spelled_words,
                                                  LogLine(t, current_word))
                       /\ ClearEffect
                       /\ lastOp' = Op("submit_word", "submitted", 0, <<>>)
                       /\ ObserveClear
                  ELSE /\ lastOp' = Op("submit_word", "write_failed", 0, <<>>)
                       /\ UNCHANGED <<spelled_words, current_word,
                                      last_detected_letter, letter_hold_start,
                                      ep, differRun, firstDet>>
       ELSE /\ lastOp' = Op("submit_word", "empty", 0, <<>>)
            /\ UNCHANGED <<current_word, last_detected_letter,
                           letter_hold_start, word_history, spelled_words, now,
                           ep, differRun, firstDet>>

\* the log file opened with mode "a", which keeps its lines
TruncateAppendMode(lines) == lines

\* open("words/spelled_words.txt", "w").close()
Truncate(lines) == <<>>

\* clear_history; the truncation of the log file either succeeds or raises
ClearHistory ==
    /\ word_history' = <<>>
    /\ \E truncated \in BOOLEAN :
          /\ spelled_words' = IF truncated THEN Truncate(spelled_words)
                                             ELSE spelled_words
          /\ lastOp' = Op("clear_history",
                          IF truncated THEN "cleared" ELSE "truncate_failed",
                          0, <<>>)
    /\ UNCHANGED <<current_word, last_detected_letter,
                   letter_hold_start, cap, is_running, selected, pending, now,
                   ep, differRun, firstDet>>

\* --------------------------------------------------------- specifications
Next ==
    \/ StartDetection
    \/ StopDetection
    \/ OnWebcamChange
    \/ UpdateFrame
    \/ ClearWord
    \/ BackspaceWord
    \/ AddSpace
    \/ SubmitWord
    \/ ClearHistory

\* Every operation of the application.  Its state space is the product of
\* the two specifications below and is not explored as a whole: each
\* property is checked under the specification that holds its operations.
Spec == Init /\ [][Next]_vars

\* The detection session with the edits of the buffer.  submit_word is left
\* to SpecHistory: on the buffer and the debounce state it acts exactly as
\* clear_word, which it calls; clear_history touches neither.
NextDebounce ==
    \/ StartDetection
    \/ StopDetection
    \/ OnWebcamChange
    \/ UpdateFrame
    \/ ClearWord
    \/ BackspaceWord
    \/ AddSpace

SpecDebounce == Init /\ [][NextDebounce]_vars

\* The word history and its log file, fed by a detection session.
NextHistory ==
    \/ StartDetection
    \/ OnWebcamChange
    \/ UpdateFrame
    \/ SubmitWord
    \/ ClearHistory

SpecHistory == Init /\ [][NextHistory]_vars

\* The two commands that refuse an empty buffer, backspace_word and
\* submit_word, over a buffer fed by a detection session.
NextCommands ==
    \/ StartDetection
    \/ OnWebcamChange
    \/ UpdateFrame
    \/ BackspaceWord
    \/ SubmitWord
    \/ ClearHistory

SpecCommands == Init /\ [][NextCommands]_vars

\* The debounce of an application configured with HOLD_TIME = 0, with the
\* commands that edit the buffer.
NextZeroHold ==
    \/ ZeroHoldTick
    \/ ClearWord
    \/ BackspaceWord

SpecZeroHold == Init /\ [][NextZeroHold]_vars

\* ------------------------------------------------------------------ claims
Elapsed == ep.seen - ep.start

\* C1: when a qualifying symbol s appears as a new candidate and every
\* following sample carries s, exactly one confirmed-symbol event for s is
\* produced once the samples span HOLD_TIME, at the first tick whose elapsed
\* time since s appeared is >= HOLD_TIME: after every tick of the run the
\* number of events is 1 if that much time has elapsed and 0 if not, and the
\* tick that produced the event appended s.
C1_ExactlyOneAtFirstHeldTick ==
    (ep.sym # NoLetter /\ ep.fresh) =>
        /\ ep.adds = IF Elapsed >= HOLD_TIME THEN 1 ELSE 0
        /\ (lastOp.result = "frame" /\ lastOp.added > 0 /\ ep.adds > 0) =>
               current_word = Append(lastOp.before, ep.sym)

\* the tick at which the hold time is reached has just appended the symbol
C1_Witness ==
    /\ ep.sym # NoLetter /\ ep.fresh
    /\ Elapsed = HOLD_TIME
    /\ ep.adds = 1
    /\ lastOp.result = "frame" /\ lastOp.added = 1
    /\ current_word = Append(lastOp.before, ep.sym)

\* C2: a hold episode (a maximal run of consecutive samples carrying the
\* same symbol, not interrupted by clear_word) produces at most one
\* confirmed-symbol event, however long the letter keeps being detected.
C2_AtMostOnePerEpisode ==
    ep.sym # NoLetter => ep.adds <= 1

\* the letter is still being detected after it was added
C2_Witness ==
    /\ ep.sym # NoLetter
    /\ ep.adds = 1
    /\ Elapsed > HOLD_TIME
    /\ lastOp.result = "frame" /\ lastOp.added = 0

\* C3 (as claimed): a tick without a qualifying detection resets the hold
\* progress: a presentation that follows such a tick yields exactly one
\* event, timed from its own start -- none before HOLD_TIME has elapsed
\* since that start, one from then on.
C3_GapResetsHold ==
    (ep.sym # NoLetter /\ ep.gap) =>
        ep.adds = IF Elapsed >= HOLD_TIME THEN 1 ELSE 0

\* C4 (as claimed): after s was confirmed, presenting s again after a
\* release and holding it for HOLD_TIME confirms s a second time, and no
\* presentation confirms s twice.
C4_ReleaseAllowsSecondConfirmation ==
    /\ ep.sym # NoLetter => ep.adds <= 1
    /\ (ep.sym # NoLetter /\ ep.again /\ Elapsed >= HOLD_TIME) => ep.adds = 1

\* C5: one run of update_frame over one frame appends at most one character
\* to the word, whatever the detector returned for the frame.
C5_AtMostOnePerTick ==
    lastOp.result = "frame" => lastOp.added <= 1

\* a frame with several detections: the first one was confirmed, the last
\* one carries another letter
C5_Witness ==
    /\ lastOp.result = "frame" /\ lastOp.added = 1
    /\ ep.sym # NoLetter /\ ep.sym # current_word[Len(current_word)]
    /\ Len(current_word) = Len(lastOp.before) + 1

\* C6: as long as every tick carries a qualifying symbol and every sample
\* differs from the sample before it, no confirmed-symbol event is produced
\* and detection never extends the word.
C6_ChangingSymbolNoEvent ==
    differRun # Broken =>
        /\ lastOp.result = "frame" => lastOp.added = 0
        /\ ep.adds = 0

\* two or more samples, each different from the one before, the latest one
\* at least HOLD_TIME after the clock's first value
C6_Witness ==
    /\ differRun = 2
    /\ lastOp.result = "frame"
    /\ ep.start >= 1 + HOLD_TIME

\* C7 (as claimed): backspace resets the debounce state to Idle.
C7_BackspaceResetsDebounce ==
    (lastOp.op = "backspace_word" /\ lastOp.result = "removed") =>
        (last_detected_letter = NoLetter /\ letter_hold_start = NoTime)

\* a backspace right after an append (by a confirmed detection or by
\* add_space) restores the buffer the append started from
RoundTripStep ==
    (/\ lastOp'.op = "backspace_word"
     /\ \/ lastOp.op = "add_space"
        \/ lastOp.result = "frame" /\ lastOp.added = 1)
    => current_word' = lastOp.before

\* C8: appending c to the buffer b and then calling backspace leaves the
\* buffer equal to b, and the removed symbol is not confirmed again while its
\* presentation goes on.
C8_AppendBackspaceRoundTrip ==
    /\ [][RoundTripStep]_vars
    /\ [](ep.undone => ep.adds <= 1)

\* the letter confirmed and then removed is still being detected
C8_Witness ==
    /\ ep.undone /\ ep.adds = 1
    /\ lastOp.result = "frame" /\ lastOp.added = 0
    /\ Elapsed > HOLD_TIME

\* C9: clear_word empties the buffer and resets the debounce state to Idle;
\* the first detection after it starts a hold timed from that tick, and no
\* frame confirms a symbol before HOLD_TIME has elapsed since that detection.
C9_ClearResets ==
    /\ lastOp.op = "clear_word" =>
          /\ current_word = <<>>
          /\ last_detected_letter = NoLetter
          /\ letter_hold_start = NoTime
    /\ firstDet > 0 => now - firstDet < HOLD_TIME
    /\ (firstDet > 0 /\ lastOp.result = "frame") => lastOp.added = 0
    /\ (firstDet > 0 /\ ep.sym # NoLetter /\ ep.start = firstDet) =>
          /\ last_detected_letter = ep.sym
          /\ letter_hold_start = firstDet

\* the first detection after a clear_word has started its hold
C9_Witness ==
    /\ firstDet > 0
    /\ lastOp.result = "frame"
    /\ ep.sym # NoLetter /\ ep.start = firstDet
    /\ letter_hold_start = firstDet
    /\ current_word = <<>>

\* a successful submit_word of the buffer w
SubmitStep ==
    (lastOp'.op = "submit_word" /\ lastOp'.result = "submitted") =>
        LET n == Len(spelled_words)
        IN /\ current_word # <<>>
           /\ word_history' = Append(word_history, current_word)
           /\ Len(spelled_words') = n + 1
           /\ SubSeq(spelled_words', 1, n) = spelled_words
           /\ spelled_words'[n + 1] =
                 [ts |-> now' \div UnitsPerSecond, text |-> current_word]
           /\ current_word' = <<>>
           /\ last_detected_letter' = NoLetter
           /\ letter_hold_start' = NoTime

\* C10: a submit of a non-empty buffer w whose log write succeeds appends one
\* entry w to the history and one line for w to the log, leaves the earlier
\* entries and lines as they were, and clears the buffer and the debounce
\* state.
C10_SubmitAppendsAndClears == [][SubmitStep]_vars

\* a second word was submitted on top of an earlier entry and earlier lines
C10_Witness ==
    /\ lastOp.op = "submit_word" /\ lastOp.result = "submitted"
    /\ Len(word_history) = 2
    /\ Len(spelled_words) = 3
    /\ current_word = <<>>

\* a submit_word whose log write raised, or a clear_history whose truncation
\* raised, has left the buffer, the history and the debounce state alone
FailedLogStep ==
    (lastOp'.result \in {"write_failed", "truncate_failed"}) =>
        UNCHANGED <<current_word, word_history, last_detected_letter,
                    letter_hold_start>>

\* C11 (as claimed): when the log write of submit_word or the truncation of
\* clear_history fails, the in-memory state (word buffer, history list,
\* debounce state) is exactly what it was before the call.
C11_FailedLogLeavesMemory == [][FailedLogStep]_vars

\* C12 (as claimed): after every completed operation, and at application
\* start over an existing log file, the history list and the log file have
\* the same number of entries and the i-th history entry is the word of the
\* i-th log line.
C12_HistoryMirrorsLog ==
    /\ Len(word_history) = Len(spelled_words)
    /\ \A i \in 1..Min(Len(word_history), Len(spelled_words)) :
          word_history[i] = spelled_words[i].text

\* the first frame of a new detection session appends nothing
RestartStep ==
    (~is_running /\ is_running') => current_word' = current_word

\* C13 (as claimed): the debounce state is Idle whenever no detection
\* session runs -- stop_detection, however it was reached, leaves no
\* candidate symbol and no running hold timer -- so that no symbol is
\* confirmed by the first frame of the next session.
C13_StopResetsDebounce ==
    /\ [](~is_running =>
            (last_detected_letter = NoLetter /\ letter_hold_start = NoTime))
    /\ [][RestartStep]_vars

\* backspace_word or submit_word called on an empty buffer
EmptyBufferStep ==
    (lastOp'.op \in {"backspace_word", "submit_word"} /\ current_word = <<>>)
    => /\ UNCHANGED <<current_word, word_history, spelled_words,
                      last_detected_letter, letter_hold_start>>
       /\ lastOp'.result = "empty"

\* C14: backspace on an empty buffer and submit on an empty buffer change
\* neither the buffer nor the history, the log or the debounce state; the
\* call only reports that there was nothing to do.
C14_EmptyBufferNoOp == [][EmptyBufferStep]_vars

\* submit_word found the buffer empty while a letter is being held and the
\* history and the log have entries
C14_Witness ==
    /\ lastOp.op = "submit_word" /\ lastOp.result = "empty"
    /\ last_detected_letter # NoLetter /\ letter_hold_start # NoTime
    /\ word_history # <<>> /\ spelled_words # <<>>

\* a clear_history that always leaves an empty history and an empty log
ClearHistoryAlwaysStep ==
    (lastOp'.op = "clear_history") =>
        /\ word_history' = <<>>
        /\ spelled_words' = <<>>
        /\ UNCHANGED <<current_word, last_detected_letter, letter_hold_start>>

ClearHistoryStep ==
    (lastOp'.op = "clear_history") =>
        /\ word_history' = <<>>
        /\ lastOp'.result = "cleared" => spelled_words' = <<>>
        /\ lastOp'.result # "cleared" => spelled_words' = spelled_words
        /\ UNCHANGED <<current_word, last_detected_letter, letter_hold_start>>

ResubmitStep ==
    (/\ lastOp'.op = "submit_word" /\ lastOp'.result = "submitted"
     /\ word_history # <<>>
     /\ word_history[Len(word_history)] = current_word)
    => /\ Len(word_history') = Len(word_history) + 1
       /\ word_history'[Len(word_history')] = current_word
       /\ SubSeq(word_history', 1, Len(word_history)) = word_history
       /\ Len(spelled_words') = Len(spelled_words) + 1
       /\ spelled_words'[Len(spelled_words')].text = current_word

\* C16: submitting a buffer whose contents equal the word submitted just
\* before records the word a second time: one more history entry and one
\* more log line, both with that word; equal words are not merged.
C16_NoDeduplication == [][ResubmitStep]_vars

\* the same word was submitted twice in a row, both times with a successful
\* write, on top of a line of an earlier run: two equal entries in the
\* history and two lines with that word at the end of the log
C16_Witness ==
    /\ lastOp.op = "submit_word" /\ lastOp.result = "submitted"
    /\ Len(word_history) = 2 /\ Len(spelled_words) = 3
    /\ word_history[2] = word_history[1]
    /\ spelled_words[3].text = word_history[2]
    /\ spelled_words[2].text = word_history[1]

\* A handle leaves self.cap in two ways: stop_detection releases it and
\* stores None, and on_webcam_change assigns the new handle over it.  The
\* steps that start and end with a stored handle, are recorded as SessionOp
\* and leave the callback queue as it was are those of on_webcam_change; the
\* handle they replace has been released only if stop_detection was called
\* first, that is, if the session was running.
ReplaceHandleStep ==
    (/\ cap = "open" /\ cap' # "None"
     /\ lastOp' = SessionOp /\ pending' = pending)
    => is_running

\* C17 (as claimed): every capture handle that was opened is released
\* exactly once, on every path of start, stop, toggle, webcam change and
\* read failure; no operation drops an opened handle without releasing it.
C17_HandlesReleased == [][ReplaceHandleStep]_vars

\* a callback of a running session that ends the session has met a failing
\* cap.read(): it took its entry from the callback queue and scheduled none
ReadFailureStep ==
    (is_running /\ ~is_running' /\ pending' = pending - 1) => cap' = "None"

\* C18 (as claimed): after a device failure the session is stopped and no
\* capture handle remains stored: a handle whose open failed ("closed") is
\* never kept in self.cap, and a failed read ends with self.cap = None.
C18_DeviceFailureLeavesNoHandle ==
    /\ [](cap # "closed")
    /\ [][ReadFailureStep]_vars

\* a tick of the debounce with HOLD_TIME = 0.  After the tick
\* last_detected_letter is the symbol the tick carried.
ZeroHoldStep ==
    (lastOp'.result = "frame") =>
        IF last_detected_letter' # last_detected_letter
        THEN \* first tick of a new candidate
             /\ current_word' = current_word
             /\ letter_hold_start' = now'
             /\ letter_hold_start' # NoTime
        ELSE \* the candidate again: confirmed if its hold is running
             letter_hold_start # NoTime =>
                 /\ current_word' = Append(current_word, last_detected_letter)
                 /\ letter_hold_start' = NoTime

C20_SingleTickLoop == is_running => pending <= 1

\* a step that processed a frame read it from an opened capture of a
\* running session
FrameReadStep ==
    (lastOp'.result = "frame") => (is_running' /\ cap' = "open")

\* a step that begins and ends with detection stopped processes no frame,
\* and if it is a step of the session (toggle, webcam change, a callback
\* firing) it leaves the buffer and the debounce fields alone
IdleStep ==
    (~is_running /\ ~is_running') =>
        /\ lastOp'.result # "frame"
        /\ (lastOp' = SessionOp =>
               UNCHANGED <<current_word, last_detected_letter,
                           letter_hold_start>>)

\* C21: whenever is_running holds a capture handle is stored (cap is not
\* None), so update_frame never reads from a missing capture; while
\* is_running is false no frame is processed and detection never changes
\* the word buffer.
C21_RunningHasCapture ==
    /\ [](is_running => cap # "None")
    /\ [][FrameReadStep]_vars
    /\ [][IdleStep]_vars

\* detection is stopped after a letter was seen and a buffer was spelled,
\* a handle is stored and every scheduled callback has fired
C21_Witness ==
    /\ ~is_running
    /\ cap = "open"
    /\ pending = 0
    /\ lastOp = SessionOp
    /\ last_detected_letter # NoLetter
    /\ letter_hold_start # NoTime
    /\ current_word # <<>>

====
